---- MODULE Spec2Model ----
(***************************************************************************)
(* Model of the S3-compatible storage backend of the Parseable server      *)
(* (server/src/storage/s3.rs): upload_file with its multipart path,        *)
(* delete_prefix / delete_stream, list_streams, and the request limiter    *)
(* that wraps the transport client.                                        *)
(*                                                                         *)
(* The remote endpoint is the environment: every request a handler awaits  *)
(* is split in a Start step (a permit of the limiter is taken, the request *)
(* is in flight) and a Resp step (the endpoint answers, success or         *)
(* failure chosen by the environment, the permit is returned, and the      *)
(* handler runs up to its next await).                                     *)
(***************************************************************************)
EXTENDS Integers, Sequences, FiniteSets, TLC

\* ------------------------------------------------------------------ bounds
\* permits of one LimitStore (the model's value of MAX_OBJECT_STORE_REQUESTS)
MaxRequests == 2
\* the local files are up to this many bytes over the single-shot threshold
MaxOver == 1
\* data objects stored under each stream prefix
MaxObjs == 2

\* --------------------------------------------------------- program constants
MULTIPART_UPLOAD_SIZE == 1024 * 1024 * 100

\* vec![0u8; MULTIPART_UPLOAD_SIZE / 2]
ChunkSize == MULTIPART_UPLOAD_SIZE \div 2

STREAM_METADATA_FILE_NAME == ".stream.json"

\* ------------------------------------------------------------------- state
VARIABLES
    objects,     \* keys visible in the bucket, each <<prefix, name>>
    session,     \* the multipart session of the upload key at the endpoint
    inflight,    \* permits taken on the LimitStore of the S3 instance
    dfInflight,  \* permits taken on the LimitStore of the query runtime
    ops,         \* the operations the callers issue in this run
    up,          \* the upload_file call
    del,         \* the delete_prefix / delete_stream call
    ls,          \* the list_streams call
    rq,          \* the get_object and put_object calls
    stats,       \* a TypedStatistics value and the last call made on it
    qt           \* the query_table call

vars == <<objects, session, inflight, dfInflight, ops, up, del, ls, rq, stats, qt>>

\* the state of the storage backend and of the calls in progress on it
storeVars == <<objects, session, inflight, dfInflight, ops, up, del, ls, rq>>

Streams == {"orders", "users"}

DataNames == {"f" \o ToString(i) : i \in 1..MaxObjs}

\* the key upload_file writes, absent from the bucket at the start
UploadKey == <<"orders", "upload.parquet">>

\* the prefix delete_prefix / delete_stream is called with
DeletePrefix == "users"

MetaKey(dir) == <<dir, STREAM_METADATA_FILE_NAME>>

Min(a, b) == IF a < b THEN a ELSE b

\* Result<(), ObjectStorageError>: Ok(()), or Err tagged with the step whose
\* error it carries
Ok == [ok |-> TRUE, step |-> "none"]

Err(step) == [ok |-> FALSE, step |-> step]

NoResult == [ok |-> FALSE, step |-> "pending"]

\* --------------------------------------------------------------- limiter
\* faulty variant: the limiter grants no permit, a request waits for ever
PermitNeverFree(n) == n < 0

\* faulty variant: the client is used without the limiter
PermitAlwaysFree(n) == TRUE

\* LimitStore::new(s3, MAX_OBJECT_STORE_REQUESTS): a request starts only
\* with a permit of the semaphore
PermitFree(n) == n < MaxRequests

\* REQUEST_RESPONSE_TIME status label
StatusLabel(res) == IF res.ok THEN "200" ELSE "400"

\* ------------------------------------------------------------ upload_file
\* faulty variant: >= in place of >
ShouldMultipartInclusive(size) == size >= MULTIPART_UPLOAD_SIZE

\* let should_multipart = metadata(path)?.len() > MULTIPART_UPLOAD_SIZE as u64
ShouldMultipart(size) == size > MULTIPART_UPLOAD_SIZE

FileSizes == {MULTIPART_UPLOAD_SIZE + d : d \in (0 - 1)..MaxOver}

\* a read that fills only part of the buffer
ShortReadLen == ChunkSize \div 2

\* file.read(&mut buf): 0 at end of file, else up to buf.len() bytes
ReadLens(rem) ==
    IF rem = 0 THEN {0}
    ELSE {Min(ChunkSize, rem)} \cup {n \in {ShortReadLen} : n < Min(ChunkSize, rem)}

\* faulty variant: the whole buffer is written, &buf[..], stale tail included
SliceWholeBuffer(buf) == <<buf.start, ChunkSize>>

\* &buf[0..len]: the bytes handed to write_all, as <<file offset, length>>
Slice(buf) == <<buf.start, buf.len>>

\* faulty variant: the abort future is built and never awaited, no request is sent
AbortNotAwaited(status, ok) == status

\* close_multipart: abort_multipart(key, multipart_id) cancels the session
\* at the endpoint when the request succeeds
AbortEffect(status, ok) == IF ok /\ status = "open" THEN "aborted" ELSE status

\* close_multipart(err).await?; break;  -- an abort that fails returns its
\* error, an abort that succeeds leaves the loop for the shutdown below it
AfterAbort(ok) == IF ok THEN "shutdown" ELSE "return"

\* the endpoint completes only a session that is still open
Completes(status, ok) == ok /\ status = "open"

UpInit ==
    [pc |-> "idle", size |-> 0, path |-> "none", pos |-> 0,
     buf |-> [start |-> 0, len |-> 0], written |-> <<>>, flushed |-> 0,
     flying |-> 0, failed |-> "none", res |-> NoResult, puts |-> 0,
     sessions |-> 0, aborts |-> 0, shutdowns |-> 0, obs |-> <<>>]

\* lines 355-361: the outcome is observed under UPLOAD_PARQUET and returned
Finish(u, res) ==
    [u EXCEPT !.pc = "returned", !.res = res,
              !.obs = Append(@, <<"UPLOAD_PARQUET", StatusLabel(res)>>)]

\* a `?` ahead of the observation returns the error at once
ReturnEarly(u, res) == [u EXCEPT !.pc = "returned", !.res = res]

UploadCall(size, ok) ==
    /\ "upload" \in ops
    /\ up.pc = "idle"
    /\ up' = IF ~ok THEN ReturnEarly([up EXCEPT !.size = size], Err("metadata"))
             ELSE [up EXCEPT !.size = size,
                             !.path = IF ShouldMultipart(size) THEN "multipart" ELSE "single",
                             !.pc = IF ShouldMultipart(size) THEN "mp_open" ELSE "ss_read"]
    /\ UNCHANGED <<objects, session, inflight, dfInflight, ops, del, ls, rq, stats, qt>>

SsRead(ok) ==
    /\ up.pc = "ss_read"
    /\ up' = IF ok THEN [up EXCEPT !.pc = "ss_put"] ELSE ReturnEarly(up, Err("fs_read"))
    /\ UNCHANGED <<objects, session, inflight, dfInflight, ops, del, ls, rq, stats, qt>>

SsPutStart ==
    /\ up.pc = "ss_put"
    /\ PermitFree(inflight)
    /\ inflight' = inflight + 1
    /\ up' = [up EXCEPT !.pc = "ss_put_wait", !.puts = @ + 1]
    /\ UNCHANGED <<objects, session, dfInflight, ops, del, ls, rq, stats, qt>>

SsPutResp(ok) ==
    /\ up.pc = "ss_put_wait"
    /\ inflight' = inflight - 1
    /\ objects' = IF ok THEN objects \cup {UploadKey} ELSE objects
    /\ up' = Finish(up, IF ok THEN Ok ELSE Err("put"))
    /\ UNCHANGED <<session, dfInflight, ops, del, ls, rq, stats, qt>>

MpOpen(ok) ==
    /\ up.pc = "mp_open"
    /\ up' = IF ok THEN [up EXCEPT !.pc = "mp_init"] ELSE Finish(up, Err("open"))
    /\ UNCHANGED <<objects, session, inflight, dfInflight, ops, del, ls, rq, stats, qt>>

MpInitStart ==
    /\ up.pc = "mp_init"
    /\ PermitFree(inflight)
    /\ inflight' = inflight + 1
    /\ up' = [up EXCEPT !.pc = "mp_init_wait", !.sessions = @ + 1]
    /\ UNCHANGED <<objects, session, dfInflight, ops, del, ls, rq, stats, qt>>

MpInitResp(ok) ==
    /\ up.pc = "mp_init_wait"
    /\ inflight' = inflight - 1
    /\ session' = IF ok THEN "open" ELSE session
    /\ up' = IF ok THEN [up EXCEPT !.pc = "read"] ELSE Finish(up, Err("put_multipart"))
    /\ UNCHANGED <<objects, dfInflight, ops, del, ls, rq, stats, qt>>

MpRead(ok, len) ==
    /\ up.pc = "read"
    /\ len \in ReadLens(up.size - up.pos)
    /\ up' = IF ~ok THEN [up EXCEPT !.failed = "read", !.pc = "abort"]
             ELSE IF len = 0 THEN [up EXCEPT !.pc = "shutdown"]
             ELSE [up EXCEPT !.buf = [start |-> up.pos, len |-> len],
                             !.pos = @ + len, !.pc = "write"]
    /\ UNCHANGED <<objects, session, inflight, dfInflight, ops, del, ls, rq, stats, qt>>

MpWriteStart ==
    /\ up.pc = "write"
    /\ PermitFree(inflight)
    /\ inflight' = inflight + 1
    /\ up' = [up EXCEPT !.pc = "write_wait", !.flying = @ + 1]
    /\ UNCHANGED <<objects, session, dfInflight, ops, del, ls, rq, stats, qt>>

MpWriteResp(ok) ==
    /\ up.pc = "write_wait"
    /\ inflight' = inflight - 1
    /\ up' = IF ok THEN [up EXCEPT !.written = Append(@, Slice(up.buf)),
                                   !.flying = @ - 1, !.pc = "flush"]
             ELSE [up EXCEPT !.failed = "write", !.flying = @ - 1, !.pc = "abort"]
    /\ UNCHANGED <<objects, session, dfInflight, ops, del, ls, rq, stats, qt>>

MpFlushStart ==
    /\ up.pc = "flush"
    /\ PermitFree(inflight)
    /\ inflight' = inflight + 1
    /\ up' = [up EXCEPT !.pc = "flush_wait"]
    /\ UNCHANGED <<objects, session, dfInflight, ops, del, ls, rq, stats, qt>>

MpFlushResp(ok) ==
    /\ up.pc = "flush_wait"
    /\ inflight' = inflight - 1
    /\ up' = IF ok THEN [up EXCEPT !.flushed = Len(up.written), !.pc = "read"]
             ELSE [up EXCEPT !.failed = "flush", !.pc = "abort"]
    /\ UNCHANGED <<objects, session, dfInflight, ops, del, ls, rq, stats, qt>>

MpAbortStart ==
    /\ up.pc = "abort"
    /\ PermitFree(inflight)
    /\ inflight' = inflight + 1
    /\ up' = [up EXCEPT !.pc = "abort_wait", !.aborts = @ + 1]
    /\ UNCHANGED <<objects, session, dfInflight, ops, del, ls, rq, stats, qt>>

MpAbortResp(ok) ==
    /\ up.pc = "abort_wait"
    /\ inflight' = inflight - 1
    /\ session' = AbortEffect(session, ok)
    /\ up' = IF AfterAbort(ok) = "return" THEN Finish(up, Err("abort"))
             ELSE [up EXCEPT !.pc = AfterAbort(ok)]
    /\ UNCHANGED <<objects, dfInflight, ops, del, ls, rq, stats, qt>>

MpShutdownStart ==
    /\ up.pc = "shutdown"
    /\ PermitFree(inflight)
    /\ inflight' = inflight + 1
    /\ up' = [up EXCEPT !.pc = "shutdown_wait", !.shutdowns = @ + 1]
    /\ UNCHANGED <<objects, session, dfInflight, ops, del, ls, rq, stats, qt>>

MpShutdownResp(ok) ==
    /\ up.pc = "shutdown_wait"
    /\ inflight' = inflight - 1
    /\ session' = IF Completes(session, ok) THEN "completed" ELSE session
    /\ objects' = IF Completes(session, ok) THEN objects \cup {UploadKey} ELSE objects
    /\ up' = Finish(up, IF Completes(session, ok) THEN Ok ELSE Err("shutdown"))
    /\ UNCHANGED <<dfInflight, ops, del, ls, rq, stats, qt>>

UploadStep ==
    \/ \E size \in FileSizes, ok \in BOOLEAN : UploadCall(size, ok)
    \/ \E ok \in BOOLEAN : SsRead(ok)
    \/ SsPutStart
    \/ \E ok \in BOOLEAN : SsPutResp(ok)
    \/ \E ok \in BOOLEAN : MpOpen(ok)
    \/ MpInitStart
    \/ \E ok \in BOOLEAN : MpInitResp(ok)
    \/ \E ok \in BOOLEAN, len \in ReadLens(up.size - up.pos) : MpRead(ok, len)
    \/ MpWriteStart
    \/ \E ok \in BOOLEAN : MpWriteResp(ok)
    \/ MpFlushStart
    \/ \E ok \in BOOLEAN : MpFlushResp(ok)
    \/ MpAbortStart
    \/ \E ok \in BOOLEAN : MpAbortResp(ok)
    \/ MpShutdownStart
    \/ \E ok \in BOOLEAN : MpShutdownResp(ok)

\* ---------------------------------------------- delete_prefix, delete_stream
\* self.client.list(Some(&key.into())): the objects under the prefix
Listed(objs, prefix) == {k \in objs : k[1] = prefix}

\* faulty variant: the first failed delete ends the fan-out (try_for_each_concurrent)
DeleteSettledFailFast(st, k, ok) ==
    IF ok THEN [st EXCEPT ![k] = "deleted"]
    ELSE [j \in DOMAIN st |-> IF j = k THEN "failed"
                              ELSE IF st[j] = "todo" THEN "skipped" ELSE st[j]]

\* if (self.client.delete(&obj.location).await).is_err() { log::error!(..) }
DeleteSettled(st, k, ok) == [st EXCEPT ![k] = IF ok THEN "deleted" ELSE "failed"]

\* faulty variant: a failed delete is returned to the caller
DeleteResultReported(st) ==
    IF \E k \in DOMAIN st : st[k] = "failed" THEN Err("delete") ELSE Ok

\* for_each_concurrent(..).await; Ok(())
DeleteResult(st) == Ok

DelInit ==
    [pc |-> "idle", api |-> "none", listing |-> "none", items |-> {}, st |-> <<>>,
     tries |-> <<>>, streamErr |-> FALSE, res |-> NoResult]

DeleteCall(api) ==
    /\ "delete" \in ops
    /\ del.pc = "idle"
    /\ del' = [del EXCEPT !.pc = "list", !.api = api]
    /\ UNCHANGED <<objects, session, inflight, dfInflight, ops, up, ls, rq, stats, qt>>

DelListStart ==
    /\ del.pc = "list"
    /\ PermitFree(inflight)
    /\ inflight' = inflight + 1
    /\ del' = [del EXCEPT !.pc = "list_wait"]
    /\ UNCHANGED <<objects, session, dfInflight, ops, up, ls, rq, stats, qt>>

\* ok: the listing request; itemErr: the stream also yields an Err item,
\* which the closure only logs
DelListResp(ok, itemErr) ==
    /\ del.pc = "list_wait"
    /\ inflight' = inflight - 1
    /\ del' = IF ~ok THEN [del EXCEPT !.pc = "returned", !.listing = "failed",
                                      !.res = Err("list")]
              ELSE [del EXCEPT !.pc = "fanout", !.listing = "ok",
                               !.items = Listed(objects, DeletePrefix),
                               !.st = [k \in Listed(objects, DeletePrefix) |-> "todo"],
                               !.tries = [k \in Listed(objects, DeletePrefix) |-> 0],
                               !.streamErr = itemErr]
    /\ UNCHANGED <<objects, session, dfInflight, ops, up, ls, rq, stats, qt>>

DelDeleteStart(k) ==
    /\ del.pc = "fanout"
    /\ k \in del.items
    /\ del.st[k] = "todo"
    /\ PermitFree(inflight)
    /\ inflight' = inflight + 1
    /\ del' = [del EXCEPT !.st[k] = "flying", !.tries[k] = @ + 1]
    /\ UNCHANGED <<objects, session, dfInflight, ops, up, ls, rq, stats, qt>>

DelDeleteResp(k, ok) ==
    /\ del.pc = "fanout"
    /\ k \in del.items
    /\ del.st[k] = "flying"
    /\ inflight' = inflight - 1
    /\ objects' = IF ok THEN objects \ {k} ELSE objects
    /\ del' = [del EXCEPT !.st = DeleteSettled(del.st, k, ok)]
    /\ UNCHANGED <<session, dfInflight, ops, up, ls, rq, stats, qt>>

DelReturn ==
    /\ del.pc = "fanout"
    /\ \A k \in del.items : del.st[k] \notin {"todo", "flying"}
    /\ del' = [del EXCEPT !.pc = "returned", !.res = DeleteResult(del.st)]
    /\ UNCHANGED <<objects, session, inflight, dfInflight, ops, up, ls, rq, stats, qt>>

DeleteStep ==
    \/ \E api \in {"delete_prefix", "delete_stream"} : DeleteCall(api)
    \/ DelListStart
    \/ \E ok \in BOOLEAN, itemErr \in BOOLEAN : DelListResp(ok, itemErr)
    \/ \E k \in del.items : DelDeleteStart(k)
    \/ \E k \in del.items, ok \in BOOLEAN : DelDeleteResp(k, ok)
    \/ DelReturn

\* ------------------------------------------------------------ list_streams
\* impl From<object_store::Error> for ObjectStorageError
ToStorageError(e) ==
    CASE e = "Generic" -> "UnhandledError"
      [] e = "NotFound" -> "NoSuchKey"
      [] OTHER -> "UnhandledError"

\* common_prefixes of list_with_delimiter(None), first path part of each
RootDirs(objs) == {k[1] : k \in objs}

\* what a head request on the key answers: the environment may fail it
HeadOutcomes(objs, key) == {IF key \in objs THEN "Ok" ELSE "NotFound", "Generic"}

\* faulty variant: probe errors are logged and ignored, as delete_prefix does
ProbeErrorsSwallowed(outcome) == FALSE

\* stream_json_check.try_collect().await?: the first Err of a probe ends
\* the call
ProbeEnds(outcome) == outcome # "Ok"

LsInit ==
    [pc |-> "idle", listing |-> "none", dirs |-> {}, probe |-> <<>>,
     res |-> NoResult, kind |-> "none", out |-> {}]

ListCall ==
    /\ "list" \in ops
    /\ ls.pc = "idle"
    /\ ls' = [ls EXCEPT !.pc = "list"]
    /\ UNCHANGED <<objects, session, inflight, dfInflight, ops, up, del, rq, stats, qt>>

LsListStart ==
    /\ ls.pc = "list"
    /\ PermitFree(inflight)
    /\ inflight' = inflight + 1
    /\ ls' = [ls EXCEPT !.pc = "list_wait"]
    /\ UNCHANGED <<objects, session, dfInflight, ops, up, del, rq, stats, qt>>

LsListResp(ok) ==
    /\ ls.pc = "list_wait"
    /\ inflight' = inflight - 1
    /\ ls' = IF ~ok THEN [ls EXCEPT !.pc = "returned", !.listing = "failed",
                                     !.res = Err("list"),
                                     !.kind = ToStorageError("Generic")]
             ELSE [ls EXCEPT !.pc = "probing", !.listing = "ok",
                             !.dirs = RootDirs(objects),
                             !.probe = [d \in RootDirs(objects) |-> "todo"]]
    /\ UNCHANGED <<objects, session, dfInflight, ops, up, del, rq, stats, qt>>

LsHeadStart(d) ==
    /\ ls.pc = "probing"
    /\ d \in ls.dirs
    /\ ls.probe[d] = "todo"
    /\ PermitFree(inflight)
    /\ inflight' = inflight + 1
    /\ ls' = [ls EXCEPT !.probe[d] = "flying"]
    /\ UNCHANGED <<objects, session, dfInflight, ops, up, del, rq, stats, qt>>

\* a probe that ends the call drops the probes still in flight with it,
\* and their permits
LsHeadResp(d, outcome) ==
    /\ ls.pc = "probing"
    /\ d \in ls.dirs
    /\ ls.probe[d] = "flying"
    /\ outcome \in HeadOutcomes(objects, MetaKey(d))
    /\ IF ProbeEnds(outcome)
       THEN /\ inflight' = inflight - Cardinality({e \in ls.dirs : ls.probe[e] = "flying"})
            /\ ls' = [ls EXCEPT !.pc = "returned", !.res = Err("head"),
                                !.kind = ToStorageError(outcome),
                                !.probe = [e \in ls.dirs |->
                                    IF e = d THEN outcome
                                    ELSE IF ls.probe[e] = "flying" THEN "dropped"
                                    ELSE ls.probe[e]]]
       ELSE /\ inflight' = inflight - 1
            /\ ls' = [ls EXCEPT !.probe[d] = outcome]
    /\ UNCHANGED <<objects, session, dfInflight, ops, up, del, rq, stats, qt>>

\* Ok(dirs.into_iter().map(|name| LogStream { name }).collect())
LsReturn ==
    /\ ls.pc = "probing"
    /\ \A d \in ls.dirs : ls.probe[d] \notin {"todo", "flying"}
    /\ ls' = [ls EXCEPT !.pc = "returned", !.res = Ok, !.out = ls.dirs]
    /\ UNCHANGED <<objects, session, inflight, dfInflight, ops, up, del, rq, stats, qt>>

ListStep ==
    \/ ListCall
    \/ LsListStart
    \/ \E ok \in BOOLEAN : LsListResp(ok)
    \/ \E d \in ls.dirs : LsHeadStart(d)
    \/ \E d \in ls.dirs, outcome \in {"Ok", "NotFound", "Generic"} : LsHeadResp(d, outcome)
    \/ LsReturn

\* ------------------------------------------------- get_object, put_object
\* the key get_object reads: the key upload_file writes
GetKey == UploadKey

\* the key put_object writes
PutKey == MetaKey("orders")

GetOutcomes(objs, key) == {IF key \in objs THEN "Ok" ELSE "NotFound", "Generic"}

PutOutcomes == {"Ok", "Generic", "NotFound", "Other"}

\* faulty variant: an error returns before the observation is made
ObserveSuccessOnly(obs, method, outcome) ==
    IF outcome = "Ok" THEN Append(obs, <<method, "200">>) ELSE obs

\* REQUEST_RESPONSE_TIME.with_label_values(&[method, status]).observe(time)
Observe(obs, method, outcome) ==
    Append(obs, <<method, IF outcome = "Ok" THEN "200" ELSE "400">>)

\* faulty variant: `?` with no map_err, the error converted as get_object's
PutErrorConverted(e) == ToStorageError(e)

\* put_object: .map_err(|err| ObjectStorageError::ConnectionError(Box::new(err)))
PutError(e) == "ConnectionError"

RqInit ==
    [get |-> [pc |-> "idle", cause |-> "none", kind |-> "none", obs |-> <<>>],
     put |-> [pc |-> "idle", cause |-> "none", kind |-> "none", obs |-> <<>>,
              sent |-> 0]]

GetCall ==
    /\ "get" \in ops
    /\ rq.get.pc = "idle"
    /\ rq' = [rq EXCEPT !.get.pc = "send"]
    /\ UNCHANGED <<objects, session, inflight, dfInflight, ops, up, del, ls, stats, qt>>

GetStart ==
    /\ rq.get.pc = "send"
    /\ PermitFree(inflight)
    /\ inflight' = inflight + 1
    /\ rq' = [rq EXCEPT !.get.pc = "wait"]
    /\ UNCHANGED <<objects, session, dfInflight, ops, up, del, ls, stats, qt>>

\* match resp: Ok observes GET 200 and goes on to read the body, which
\* keeps the permit; Err observes GET 400 and returns err.into()
GetResp(outcome) ==
    /\ rq.get.pc = "wait"
    /\ outcome \in GetOutcomes(objects, GetKey)
    /\ IF outcome = "Ok"
       THEN /\ inflight' = inflight
            /\ rq' = [rq EXCEPT !.get.pc = "body", !.get.cause = outcome,
                                !.get.obs = Observe(@, "GET", outcome)]
       ELSE /\ inflight' = inflight - 1
            /\ rq' = [rq EXCEPT !.get.pc = "returned", !.get.cause = outcome,
                                !.get.kind = ToStorageError(outcome),
                                !.get.obs = Observe(@, "GET", outcome)]
    /\ UNCHANGED <<objects, session, dfInflight, ops, up, del, ls, stats, qt>>

\* let body = resp.bytes().await.unwrap()
GetBody(ok) ==
    /\ rq.get.pc = "body"
    /\ inflight' = inflight - 1
    /\ rq' = [rq EXCEPT !.get.pc = IF ok THEN "returned" ELSE "panicked",
                        !.get.kind = IF ok THEN "Ok" ELSE "panic"]
    /\ UNCHANGED <<objects, session, dfInflight, ops, up, del, ls, stats, qt>>

PutCall ==
    /\ "put" \in ops
    /\ rq.put.pc = "idle"
    /\ rq' = [rq EXCEPT !.put.pc = "send"]
    /\ UNCHANGED <<objects, session, inflight, dfInflight, ops, up, del, ls, stats, qt>>

PutStart ==
    /\ rq.put.pc = "send"
    /\ PermitFree(inflight)
    /\ inflight' = inflight + 1
    /\ rq' = [rq EXCEPT !.put.pc = "wait", !.put.sent = @ + 1]
    /\ UNCHANGED <<objects, session, dfInflight, ops, up, del, ls, stats, qt>>

PutResp(outcome) ==
    /\ rq.put.pc = "wait"
    /\ inflight' = inflight - 1
    /\ objects' = IF outcome = "Ok" THEN objects \cup {PutKey} ELSE objects
    /\ rq' = [rq EXCEPT !.put.pc = "returned", !.put.cause = outcome,
                        !.put.kind = IF outcome = "Ok" THEN "Ok" ELSE PutError(outcome),
                        !.put.obs = Observe(@, "PUT", outcome)]
    /\ UNCHANGED <<session, dfInflight, ops, up, del, ls, stats, qt>>

RequestStep ==
    \/ GetCall
    \/ GetStart
    \/ \E outcome \in {"Ok", "NotFound", "Generic"} : GetResp(outcome)
    \/ \E ok \in BOOLEAN : GetBody(ok)
    \/ PutCall
    \/ PutStart
    \/ \E outcome \in PutOutcomes : PutResp(outcome)

\* ------------------------------------------------- get_datafusion_runtime
\* faulty variant: the bare client is registered with the query runtime
DfUnlimited(n) == TRUE

\* the store registered with the query runtime is a LimitStore of its own:
\* LimitStore::new(s3, super::MAX_OBJECT_STORE_REQUESTS)
DfPermitFree(n) == n < MaxRequests

\* a request of the query engine through the registered store
DfStart ==
    /\ "query" \in ops
    /\ DfPermitFree(dfInflight)
    /\ dfInflight' = dfInflight + 1
    /\ UNCHANGED <<objects, session, inflight, ops, up, del, ls, rq, stats, qt>>

DfResp ==
    /\ dfInflight > 0
    /\ dfInflight' = dfInflight - 1
    /\ UNCHANGED <<objects, session, inflight, ops, up, del, ls, rq, stats, qt>>

QueryStep == DfStart \/ DfResp

\* --------------------------------------- catalog/column.rs: statistics
\* Int values are 64-bit: hi is the upper 32 bits as a signed word, lo the
\* lower 32 bits, held as the signed word with the same bit pattern
MaxI32 == 2147483647

MinI32 == (0 - MaxI32) - 1

I64(hi, lo) == [hi |-> hi, lo |-> lo]

\* i64::MIN, -2^31 - 1, -2^31, -1, 0, 1, 2^31 - 1, 2^31, 2^32, i64::MAX
Int64Values ==
    {I64(MinI32, 0), I64(0 - 1, MaxI32), I64(0 - 1, MinI32), I64(0 - 1, 0 - 1),
     I64(0, 0), I64(0, 1), I64(0, MaxI32), I64(0, MinI32), I64(1, 0),
     I64(MaxI32, 0 - 1)}

\* unsigned order of two 32-bit patterns held as signed words
ULe(x, y) == IF (x < 0) = (y < 0) THEN x <= y ELSE x >= 0

\* i64 order
Int64Le(a, b) == a.hi < b.hi \/ (a.hi = b.hi /\ ULe(a.lo, b.lo))

\* bool order, false < true
BoolLe(a, b) == a => b

\* String values are byte sequences of at most MaxStr bytes
MaxStr == 2

Bytes == {97, 98}

StringValues == UNION {[1..n -> Bytes] : n \in 0..MaxStr}

\* String order, byte-lexicographic
StringLe(s, t) ==
    \/ \E i \in 1..Min(Len(s), Len(t)) :
          /\ \A j \in 1..(i - 1) : s[j] = t[j]
          /\ s[i] < t[i]
    \/ /\ Len(s) <= Len(t)
       /\ \A j \in 1..Len(s) : s[j] = t[j]

\* f64 values: NaN, both zeros, and integers up to 2^24 + 1, the smallest
\* that f32 cannot hold
NaN == [nan |-> TRUE, neg |-> FALSE, v |-> 0]

Num(v) == [nan |-> FALSE, neg |-> v < 0, v |-> v]

NegZero == [nan |-> FALSE, neg |-> TRUE, v |-> 0]

Float64Values == {NaN, NegZero, Num(0 - 1), Num(0), Num(1), Num(16777217)}

\* f64 comparison: false with a NaN operand, the zeros compare equal
Float64Le(a, b) == ~a.nan /\ ~b.nan /\ a.v <= b.v

\* std::cmp::min and max, given whether a <= b: the first argument when the
\* two compare equal in min, the second in max
CmpMin(le, a, b) == IF le THEN a ELSE b

CmpMax(le, a, b) == IF le THEN b ELSE a

\* f64::min and f64::max: a NaN operand is ignored; of two operands that
\* compare equal either may be returned
F64Min(a, b) ==
    IF a.nan THEN {b}
    ELSE IF b.nan THEN {a}
    ELSE IF a.v < b.v THEN {a}
    ELSE IF b.v < a.v THEN {b}
    ELSE {a, b}

F64Max(a, b) ==
    IF a.nan THEN {b}
    ELSE IF b.nan THEN {a}
    ELSE IF a.v > b.v THEN {a}
    ELSE IF b.v > a.v THEN {b}
    ELSE {a, b}

\* the order of the values of one variant
Le(kind, a, b) ==
    CASE kind = "Bool" -> BoolLe(a, b)
      [] kind = "Int" -> Int64Le(a, b)
      [] kind = "Float" -> Float64Le(a, b)
      [] kind = "String" -> StringLe(a, b)

\* enum TypedStatistics, one record per variant
Stat(kind, mn, mx) == [kind |-> kind, min |-> mn, max |-> mx]

\* the thread has panicked
Panic == [kind |-> "panic"]

NoStats == [kind |-> "none"]

Ranges(kind, values) ==
    {Stat(kind, p[1], p[2]) : p \in {q \in values \X values : Le(kind, q[1], q[2])}}

\* the statistics a file can carry: min <= max, and for Float also a NaN
\* bound on either side
AllStats ==
    Ranges("Bool", BOOLEAN) \cup Ranges("Int", Int64Values)
        \cup Ranges("String", StringValues)
        \cup Ranges("Float", Float64Values)
        \cup {Stat("Float", mn, mx) : mn \in Float64Values, mx \in {NaN}}
        \cup {Stat("Float", mn, mx) : mn \in {NaN}, mx \in Float64Values}

\* faulty variant: the bounds of the two arguments crossed
updateCrossed(self, other) ==
    IF self.kind # other.kind THEN {Panic}
    ELSE {Stat(self.kind, other.max, self.min)}

\* faulty variant: the minimum is taken from self alone
updateLeftMin(self, other) ==
    IF self.kind # other.kind THEN {Panic}
    ELSE {Stat(self.kind, self.min, other.max)}

\* faulty variant: mismatched variants leave self as it is
updateKeepSelf(self, other) == {self}

\* TypedStatistics::update: the results the call can have
update(self, other) ==
    IF self.kind # other.kind THEN {Panic}
    ELSE CASE self.kind = "Bool" ->
                {Stat("Bool", CmpMin(BoolLe(self.min, other.min), self.min, other.min),
                              CmpMax(BoolLe(self.max, other.max), self.max, other.max))}
           [] self.kind = "Float" ->
                {Stat("Float", mn, mx) : mn \in F64Min(self.min, other.min),
                                         mx \in F64Max(self.max, other.max)}
           [] self.kind = "Int" ->
                {Stat("Int", CmpMin(Int64Le(self.min, other.min), self.min, other.min),
                             CmpMax(Int64Le(self.max, other.max), self.max, other.max))}
           [] self.kind = "String" ->
                {Stat("String", CmpMin(StringLe(self.min, other.min), self.min, other.min),
                                CmpMax(StringLe(self.max, other.max), self.max, other.max))}

\* arrow DataType, the six the match names and four it does not
DataTypes ==
    {"Boolean", "Int32", "Int64", "Float32", "Float64", "Utf8",
     "Int16", "UInt64", "LargeUtf8", "Binary"}

\* `as i32` of an i64: the low 32 bits
AsI32(x) == x.lo

\* `as f32` of an f64: rounded to 24 bits of mantissa, ties to even
AsF32(x) ==
    LET m == IF x.v < 0 THEN 0 - x.v ELSE x.v
        r == IF m <= 16777216 THEN m
             ELSE IF m % 2 = 0 THEN m
             ELSE IF ((m - 1) \div 2) % 2 = 0 THEN m - 1 ELSE m + 1
    IN  IF x.nan THEN x ELSE [x EXCEPT !.v = IF x.v < 0 THEN 0 - r ELSE r]

ScalarValue(type, value) == [type |-> type, value |-> value]

None == [some |-> FALSE]

Some(mn, mx) == [some |-> TRUE, min |-> mn, max |-> mx]

\* faulty variant: Int statistics answer every target type as Int64
min_max_as_scalar_lax(self, datatype) ==
    IF self.kind = "Int"
    THEN Some(ScalarValue("Int64", self.min), ScalarValue("Int64", self.max))
    ELSE None

\* TypedStatistics::min_max_as_scalar
min_max_as_scalar(self, datatype) ==
    CASE self.kind = "Bool" /\ datatype = "Boolean" ->
            Some(ScalarValue("Boolean", self.min), ScalarValue("Boolean", self.max))
      [] self.kind = "Int" /\ datatype = "Int32" ->
            Some(ScalarValue("Int32", AsI32(self.min)),
                 ScalarValue("Int32", AsI32(self.max)))
      [] self.kind = "Int" /\ datatype = "Int64" ->
            Some(ScalarValue("Int64", self.min), ScalarValue("Int64", self.max))
      [] self.kind = "Float" /\ datatype = "Float32" ->
            Some(ScalarValue("Float32", AsF32(self.min)),
                 ScalarValue("Float32", AsF32(self.max)))
      [] self.kind = "Float" /\ datatype = "Float64" ->
            Some(ScalarValue("Float64", self.min), ScalarValue("Float64", self.max))
      [] self.kind = "String" /\ datatype = "Utf8" ->
            Some(ScalarValue("Utf8", self.min), ScalarValue("Utf8", self.max))
      [] OTHER -> None

NoCall == [call |-> "none"]

\* acc.update(other), and other.update(acc) on clones of the same values
StatsUpdate(other) ==
    /\ stats.acc.kind \notin {"panic", "none"}
    /\ \E r \in update(stats.acc, other), rv \in update(other, stats.acc) :
          stats' = [acc |-> r,
                    last |-> [call |-> "update", self |-> stats.acc,
                              with |-> other, out |-> rv]]
    /\ UNCHANGED <<storeVars, qt>>

\* acc.clone().min_max_as_scalar(datatype)
StatsScalar(datatype) ==
    /\ stats.acc.kind \notin {"panic", "none"}
    /\ stats' = [acc |-> stats.acc,
                 last |-> [call |-> "scalar", self |-> stats.acc,
                           with |-> datatype,
                           out |-> min_max_as_scalar(stats.acc, datatype)]]
    /\ UNCHANGED <<storeVars, qt>>

\* ------------------------------------------------ s3.rs: query_table
MaxPrefixes == 3

Buckets == {"logs", "archive"}

QueryPrefixes == {"orders/date=2023-01-01", "orders/date=2023-01-02", "users"}

PrefixLists == UNION {[1..n -> QueryPrefixes] : n \in 0..MaxPrefixes}

\* format!("s3://{}/{}", &self.bucket, prefix)
FormatUrl(bucket, prefix) == <<"s3://", bucket, "/", prefix>>

\* ListingTableUrl::parse(path).unwrap() of a well-formed s3 URL
ParseUrl(path) == [scheme |-> "s3", host |-> path[2], path |-> <<path[3], path[4]>>]

\* faulty variant: no test for an empty list, the table is built anyway
query_table_unguarded(bucket, prefixes) ==
    [ok |-> TRUE, some |-> TRUE, requests |-> 0,
     table |-> [paths |-> [i \in 1..Len(prefixes) |-> ParseUrl(FormatUrl(bucket, prefixes[i]))],
                file_extension |-> ".parquet", pruning |-> TRUE,
                collect_stat |-> TRUE, target_partitions |-> 1,
                table_partition_cols |-> <<>>]]

\* ObjectStorage::query_table; requests counts the store requests it makes
query_table(bucket, prefixes) ==
    LET urls == [i \in 1..Len(prefixes) |-> ParseUrl(FormatUrl(bucket, prefixes[i]))]
    IN  IF urls = <<>>
        THEN [ok |-> TRUE, some |-> FALSE, requests |-> 0]
        ELSE [ok |-> TRUE, some |-> TRUE, requests |-> 0,
              table |-> [paths |-> urls,
                         file_extension |-> ".parquet", pruning |-> TRUE,
                         collect_stat |-> TRUE, target_partitions |-> 1,
                         table_partition_cols |-> <<>>]]

QtIdle == [pc |-> "none"]

QueryTableCall ==
    /\ qt.pc = "idle"
    /\ qt' = [qt EXCEPT !.pc = "returned",
                        !.out = query_table(qt.bucket, qt.prefixes)]
    /\ UNCHANGED <<storeVars, stats>>

\* ------------------------------------------------------------ the system
\* the operations that run concurrently in one run: an upload next to a read
\* of its key, a write and the query engine, or the two bulk operations next
\* to a write of a stream's metadata object
CallerMixes == {{"upload", "get", "put", "query"}, {"delete", "list", "put"}}

\* every stream holds its data objects; the per-stream metadata object is
\* there or not; the upload key is absent
InitialBuckets ==
    {(Streams \X DataNames) \cup {MetaKey(s) : s \in withMeta} : withMeta \in SUBSET Streams}

Init ==
    /\ objects \in InitialBuckets
    /\ session = "none"
    /\ inflight = 0
    /\ dfInflight = 0
    /\ ops \in CallerMixes
    /\ up = UpInit
    /\ del = DelInit
    /\ ls = LsInit
    /\ rq = RqInit
    /\ stats = [acc |-> NoStats, last |-> NoCall]
    /\ qt = QtIdle

Next ==
    \/ UploadStep
    \/ DeleteStep
    \/ ListStep
    \/ RequestStep
    \/ QueryStep

Spec == Init /\ [][Next]_vars

\* the storage backend at rest, no call in progress
StoreAtRest ==
    /\ objects = {}
    /\ session = "none"
    /\ inflight = 0
    /\ dfInflight = 0
    /\ ops = {}
    /\ up = UpInit
    /\ del = DelInit
    /\ ls = LsInit
    /\ rq = RqInit

\* an upload next to the get and the put that share its permits
InitLive ==
    /\ objects \in InitialBuckets
    /\ session = "none"
    /\ inflight = 0
    /\ dfInflight = 0
    /\ ops = {"upload", "get", "put"}
    /\ up = UpInit
    /\ del = DelInit
    /\ ls = LsInit
    /\ rq = RqInit
    /\ stats = [acc |-> NoStats, last |-> NoCall]
    /\ qt = QtIdle

NextLive == UploadStep \/ RequestStep

\* every request the endpoint holds is answered and every file read
\* returns, and the executor polls a task that can run: a step of the
\* upload, or of the get and put, is taken when it stays possible
SpecLive ==
    InitLive /\ [][NextLive]_vars /\ WF_vars(UploadStep) /\ WF_vars(RequestStep)

\* statistics of any one file, merged with and projected by any sequence
\* of calls
InitStats ==
    /\ StoreAtRest
    /\ stats \in {[acc |-> a, last |-> NoCall] : a \in AllStats}
    /\ qt = QtIdle

NextStats ==
    \/ \E other \in AllStats : StatsUpdate(other)
    \/ \E datatype \in DataTypes : StatsScalar(datatype)

SpecStats == InitStats /\ [][NextStats]_vars

\* one query_table call on any bucket with any list of prefixes
InitQuery ==
    /\ StoreAtRest
    /\ stats = [acc |-> NoStats, last |-> NoCall]
    /\ qt \in {[pc |-> "idle", bucket |-> b, prefixes |-> ps, out |-> NoResult] :
                 b \in Buckets, ps \in PrefixLists}

NextQuery == QueryTableCall

SpecQuery == InitQuery /\ [][NextQuery]_vars

\* ------------------------------------------------------------ properties
\* bytes covered by a sequence of chunks <<offset, length>>
RECURSIVE Covered(_)
Covered(w) == IF w = <<>> THEN 0 ELSE w[Len(w)][2] + Covered(SubSeq(w, 1, Len(w) - 1))

\* each chunk starts where the chunks before it end: their concatenation is
\* the file's prefix of that length
InFileOrder(w) ==
    \A i \in 1..Len(w) : w[i][2] >= 1 /\ w[i][1] = Covered(SubSeq(w, 1, i - 1))

\* C1: whenever a chunk read, write or flush fails during a multipart
\* upload, upload_file returns an error, and it is the error of the step
\* that failed; it never returns success for such an upload.
C1_ChunkErrorPropagated ==
    (up.pc = "returned" /\ up.failed # "none")
        => (~up.res.ok /\ up.res.step = up.failed)

\* the abort path of a failed chunk step has run: abort was called and
\* has been answered
AbortPathRun ==
    /\ up.failed # "none"
    /\ up.aborts >= 1
    /\ up.pc \in {"shutdown", "shutdown_wait", "returned"}

\* C2: once a multipart upload has hit a chunk error and run its abort,
\* the target key, absent at the start, is not visible in any later state:
\* a get_object on it is answered NotFound (or fails in transport), never
\* with the object.
C2_AbortedUploadNeverVisible ==
    AbortPathRun =>
        (UploadKey \notin objects /\ "Ok" \notin GetOutcomes(objects, UploadKey))

\* C2 witness: a write of an interior chunk failed, the session was
\* aborted and upload_file has returned
C2_Witness ==
    /\ AbortPathRun
    /\ up.pc = "returned"
    /\ up.failed = "write"
    /\ Len(up.written) >= 1
    /\ up.pos < up.size
    /\ session = "aborted"

\* C3: within one multipart upload the chunks are written in file order and
\* strictly one after the other: at most one chunk write is in flight, the
\* next chunk is read only when every chunk read so far is written and
\* flushed, and the chunks written concatenate to the file contents read.
C3_ChunksInOrderAndSequential ==
    /\ up.flying <= 1
    /\ InFileOrder(up.written)
    /\ up.pc = "read" =>
          /\ up.flying = 0
          /\ up.flushed = Len(up.written)
          /\ Covered(up.written) = up.pos
    /\ up.pc \in {"write", "write_wait"} =>
          /\ up.flushed = Len(up.written)
          /\ Covered(up.written) = up.buf.start
          /\ up.pos = up.buf.start + up.buf.len
    /\ up.pc \in {"flush", "flush_wait"} =>
          /\ up.flushed = Len(up.written) - 1
          /\ Covered(up.written) = up.pos

\* C3 witness: the third chunk is about to be read after a short first read
C3_Witness ==
    /\ up.pc = "read"
    /\ Len(up.written) = 2
    /\ up.written[1][2] = ShortReadLen
    /\ up.flushed = 2
    /\ up.pos < up.size

\* C4: the path is chosen by the file size alone: over 100 MiB the upload is
\* multipart and sends no single-shot PUT; at most 100 MiB, exactly 100 MiB
\* included, it is one PUT and opens no multipart session.
C4_PathChosenBySize ==
    (up.pc # "idle" /\ up.res.step # "metadata") =>
        /\ up.size > 1024 * 1024 * 100 =>
              /\ up.path = "multipart"
              /\ up.puts = 0
              /\ up.res.ok => up.sessions = 1
        /\ up.size <= 1024 * 1024 * 100 =>
              /\ up.path = "single"
              /\ up.sessions = 0
              /\ session = "none"
              /\ up.puts <= 1
              /\ up.res.step \in {"none", "put"} => up.puts = 1

\* C4 witness: a file of exactly 100 MiB went out as one PUT
C4_Witness ==
    /\ up.pc = "returned"
    /\ up.size = 1024 * 1024 * 100
    /\ up.res.ok
    /\ up.puts = 1
    /\ up.sessions = 0

\* C5: when the listing succeeded, delete_prefix attempts exactly one
\* delete for each object listed, whichever of them fail, and then returns
\* success; a failed delete neither stops nor skips the others.
C5_EveryListedObjectAttemptedOnce ==
    /\ \A k \in del.items : del.tries[k] <= 1
    /\ (del.pc = "returned" /\ del.listing = "ok") =>
          /\ del.res = Ok
          /\ \A k \in del.items :
                del.tries[k] = 1 /\ del.st[k] \in {"deleted", "failed"}

\* C5 witness: three objects were listed, a delete failed, a delete issued
\* next to it succeeded, and the call returned
C5_Witness ==
    /\ del.pc = "returned"
    /\ del.listing = "ok"
    /\ Cardinality(del.items) >= 3
    /\ \E k \in del.items : del.st[k] = "failed"
    /\ \E k \in del.items : del.st[k] = "deleted"

\* C6: delete_prefix and delete_stream return an error only when the
\* listing request failed, and then no delete was issued and no object
\* removed; a failed delete of an object is never returned to the caller.
C6_OnlyListFailureSurfaced ==
    del.pc = "returned" =>
        /\ ~del.res.ok <=> del.listing = "failed"
        /\ ~del.res.ok =>
              /\ del.res = Err("list")
              /\ del.items = {}
              /\ DOMAIN del.tries = {}
              /\ Streams \X DataNames \subseteq objects
        /\ (\E k \in del.items : del.st[k] = "failed") => del.res = Ok

\* C6 witness: delete_stream returned the error of a failed listing with
\* the objects of the prefix still in the bucket
C6_Witness ==
    /\ del.pc = "returned"
    /\ del.api = "delete_stream"
    /\ ~del.res.ok
    /\ Listed(objects, DeletePrefix) # {}

\* C7: list_streams returns exactly the root prefixes whose metadata
\* object exists: when no request failed in transport the call succeeds,
\* and a prefix whose probe was answered not-found is left out of the
\* result instead of failing the call.
C7_AbsentMetadataExcluded ==
    (/\ ls.pc = "returned"
     /\ ls.listing = "ok"
     /\ \A d \in ls.dirs : ls.probe[d] # "Generic")
        => (ls.res.ok /\ ls.out = {d \in ls.dirs : ls.probe[d] = "Ok"})

\* C8: list_streams is all or nothing for transport failures: if the root
\* listing failed, or a probe failed with an I/O error, the call returns an
\* error and no list of streams; a list is returned only with every probe
\* answered.
C8_ListStreamsAllOrNothing ==
    ls.pc = "returned" =>
        /\ (ls.listing = "failed" \/ \E d \in ls.dirs : ls.probe[d] = "Generic")
              => (~ls.res.ok /\ ls.out = {})
        /\ ls.res.ok => (ls.out = ls.dirs /\ \A d \in ls.dirs : ls.probe[d] = "Ok")

\* C8 witness: one probe was answered, another failed in transport, and
\* the call returned
C8_Witness ==
    /\ ls.pc = "returned"
    /\ \E d \in ls.dirs : ls.probe[d] = "Generic"
    /\ \E d \in ls.dirs : ls.probe[d] = "Ok"

\* requests of the S3 instance that are in flight to the endpoint
Flying(st, dom) == Cardinality({k \in dom : st[k] = "flying"})

Requests ==
    (IF up.pc \in {"ss_put_wait", "mp_init_wait", "write_wait", "flush_wait",
                   "abort_wait", "shutdown_wait"} THEN 1 ELSE 0)
    + (IF del.pc = "list_wait" THEN 1 ELSE 0) + Flying(del.st, del.items)
    + (IF ls.pc = "list_wait" THEN 1 ELSE 0) + Flying(ls.probe, ls.dirs)
    + (IF rq.get.pc \in {"wait", "body"} THEN 1 ELSE 0)
    + (IF rq.put.pc = "wait" THEN 1 ELSE 0)

\* C9: in every reachable state the requests the backend instance has in
\* flight are at most the limit, whatever mix of get, put, delete, head,
\* list and multipart requests is issued, the fan-out of delete_prefix and
\* the probes of list_streams included.
C9_InFlightWithinLimit ==
    /\ Requests <= MaxRequests
    /\ inflight = Requests

\* C9 witness: every permit is taken by a delete of the fan-out while a
\* further listed object still waits for one
C9_Witness ==
    /\ Flying(del.st, del.items) = MaxRequests
    /\ \E k \in del.items : del.st[k] = "todo"

\* C10 (as claimed): the requests of the storage backend and those of the
\* query runtime count against one cap: together they never exceed the limit.
C10_OneLimiterForBoth == Requests + dfInflight <= MaxRequests

\* C10 (amended): each store the provider builds has a limiter of its own:
\* the requests through the query runtime never exceed the limit, and with
\* those of the storage backend they stay within twice the limit.
C10_OneLimiterPerStore ==
    /\ dfInflight <= MaxRequests
    /\ Requests + dfInflight <= 2 * MaxRequests

\* C10 witness: both stores have all their permits taken at once
C10_Witness ==
    /\ dfInflight = MaxRequests
    /\ Requests = MaxRequests
    /\ up.pc = "write_wait"

\* C11: get_object classifies its failures: NotFound (NoSuchKey with the
\* path) when the object is absent, ConnectionError when the request fails
\* in transport; a transport failure is never NotFound or UnhandledError.
C11_GetFailuresClassified ==
    (rq.get.pc = "returned" /\ rq.get.cause # "Ok") =>
        /\ rq.get.cause = "NotFound" => rq.get.kind = "NoSuchKey"
        /\ rq.get.cause = "Generic" => rq.get.kind = "ConnectionError"

\* C12: every failure of put_object reaches the caller as ConnectionError,
\* whatever the underlying error, never NotFound or UnhandledError, and a
\* call sends exactly one PUT, with no retry.
C12_PutFailsAsConnectionError ==
    /\ rq.put.sent <= 1
    /\ rq.put.pc = "returned" =>
          /\ rq.put.sent = 1
          /\ rq.put.cause = "Ok" => rq.put.kind = "Ok"
          /\ rq.put.cause # "Ok" => rq.put.kind = "ConnectionError"

\* C12 witness: the endpoint answered the PUT not-found and the call
\* returned after its one request
C12_Witness ==
    /\ rq.put.pc = "returned"
    /\ rq.put.cause = "NotFound"
    /\ rq.put.sent = 1

\* the one observation a call has made once its request was answered
ObservedOnce(call, method) ==
    call.obs = << <<method, IF call.cause = "Ok" THEN "200" ELSE "400">> >>

\* C13: every get_object and put_object call makes exactly one latency
\* observation, whether its request succeeded or failed, labelled with its
\* method and with 200 exactly when the request succeeded, 400 exactly when
\* it failed; none is made before the request is answered.
C13_OneObservationPerCall ==
    /\ rq.get.pc \in {"idle", "send", "wait"} => rq.get.obs = <<>>
    /\ rq.get.pc \in {"body", "returned", "panicked"} => ObservedOnce(rq.get, "GET")
    /\ rq.put.pc \in {"idle", "send", "wait"} => rq.put.obs = <<>>
    /\ rq.put.pc = "returned" => ObservedOnce(rq.put, "PUT")

\* C13 witness: a failed get and a failed put have both returned
C13_Witness ==
    /\ rq.get.pc = "returned"
    /\ rq.get.cause = "Generic"
    /\ rq.put.pc = "returned"
    /\ rq.put.cause = "Other"

\* C19: the multipart session is finalized (shutdown) only when end of file
\* was reached with no chunk step having failed; once a chunk step has
\* failed the abort is issued exactly once and no finalize is issued on
\* that session.
C19_FinalizeOnlyAfterCleanEof ==
    /\ up.shutdowns > 0 => (up.failed = "none" /\ up.pos = up.size)
    /\ up.failed # "none" => up.aborts <= 1
    /\ (up.failed # "none" /\ up.pc = "returned") => up.aborts = 1

\* C20: every upload_file call that has returned, with success or with an
\* error from any step, has made exactly one observation labelled
\* UPLOAD_PARQUET, with 200 exactly on success and 400 exactly on error.
C20_EveryUploadObserved ==
    up.pc = "returned" =>
        up.obs = << <<"UPLOAD_PARQUET", IF up.res.ok THEN "200" ELSE "400">> >>

\* the last call was an update of statistics with statistics of its own variant
SameVariantUpdate ==
    /\ stats.last.call = "update"
    /\ stats.last.self.kind = stats.last.with.kind

\* C14: for A and B of one variant among Bool, Int and String, each with
\* min <= max, update(A, B) has that variant, its min is the smaller of the
\* two mins and its max the larger of the two maxes, so min <= max; and
\* min <= max holds of the statistics after any sequence of updates.
C14_UpdateTakesSmallerMinLargerMax ==
    /\ stats.acc.kind \in {"Bool", "Int", "String"} =>
          Le(stats.acc.kind, stats.acc.min, stats.acc.max)
    /\ (SameVariantUpdate /\ stats.last.self.kind \in {"Bool", "Int", "String"}) =>
          LET a == stats.last.self
              b == stats.last.with
              r == stats.acc
          IN  /\ r.kind = a.kind
              /\ r.min \in {a.min, b.min}
              /\ Le(a.kind, r.min, a.min) /\ Le(a.kind, r.min, b.min)
              /\ r.max \in {a.max, b.max}
              /\ Le(a.kind, a.max, r.max) /\ Le(a.kind, b.max, r.max)

\* C14 witness: two Int ranges merged into a range that is neither of them
C14_Witness ==
    /\ SameVariantUpdate
    /\ stats.last.self.kind = "Int"
    /\ stats.acc # stats.last.self
    /\ stats.acc # stats.last.with

\* two f64 that are both NaN or compare equal
F64Same(a, b) == (a.nan /\ b.nan) \/ (~a.nan /\ ~b.nan /\ a.v = b.v)

\* two results of update that are the same value; Float bounds are the
\* same when they are both NaN or compare equal
SameResult(r, q) ==
    /\ r.kind = q.kind
    /\ IF r.kind = "Float"
       THEN F64Same(r.min, q.min) /\ F64Same(r.max, q.max)
       ELSE r = q

C16_MismatchedUpdatePanics ==
    (stats.last.call = "update" /\ stats.last.self.kind # stats.last.with.kind) =>
        (stats.acc = Panic /\ stats.last.out = Panic)

\* C16 witness: Int statistics updated with Bool statistics
C16_Witness ==
    /\ stats.last.call = "update"
    /\ stats.last.self.kind = "Int"
    /\ stats.last.with.kind = "Bool"
    /\ stats.acc = Panic

\* C17: min_max_as_scalar returns a pair exactly for Bool/Boolean,
\* Int/Int32, Int/Int64, Float/Float32, Float/Float64 and String/Utf8, both
\* scalars of the target type, and none for every other pair.
C17_ScalarOnlyForSupportedPairs ==
    stats.last.call = "scalar" =>
        LET supported == <<stats.last.self.kind, stats.last.with>> \in
                            {<<"Bool", "Boolean">>, <<"Int", "Int32">>,
                             <<"Int", "Int64">>, <<"Float", "Float32">>,
                             <<"Float", "Float64">>, <<"String", "Utf8">>}
            out == stats.last.out
        IN  /\ out.some <=> supported
            /\ out.some => (out.min.type = stats.last.with /\ out.max.type = stats.last.with)
            /\ ~out.some => out = None

\* C17 witness: Int statistics asked for a Boolean target answer none
C17_Witness ==
    /\ stats.last.call = "scalar"
    /\ stats.last.self.kind = "Int"
    /\ stats.last.with = "Boolean"
    /\ stats.last.out = None

\* C18: query_table returns none, with no error and no request to the
\* backend, for an empty prefix list; for a non-empty list it returns a
\* table over exactly the given prefixes, in order, each as its URL
\* s3://<bucket>/<prefix>.
C18_QueryTableScopedToPrefixes ==
    qt.pc = "returned" =>
        /\ qt.out.ok
        /\ qt.out.requests = 0
        /\ qt.out.some <=> qt.prefixes # <<>>
        /\ qt.out.some =>
              /\ Len(qt.out.table.paths) = Len(qt.prefixes)
              /\ \A i \in 1..Len(qt.prefixes) :
                    /\ qt.out.table.paths[i].scheme = "s3"
                    /\ qt.out.table.paths[i].host = qt.bucket
                    /\ qt.out.table.paths[i].path = <<"/", qt.prefixes[i]>>

\* C18 witness: a call with two distinct prefixes returned a table
C18_Witness ==
    /\ qt.pc = "returned"
    /\ Len(qt.prefixes) = 2
    /\ qt.prefixes[1] # qt.prefixes[2]
    /\ qt.out.some

\* an i64 whose value lies in the i32 range: the upper word is the sign
\* extension of the lower one
FitsI32(x) == (x.hi = 0 /\ x.lo >= 0) \/ (x.hi = 0 - 1 /\ x.lo < 0)

\* C21: projecting Int statistics with min <= max to Int32 returns a pair
\* whose min is <= its max, and each returned bound equals the stored bound
\* whenever that bound fits in 32 bits.
C21_Int32ProjectionKeepsOrder ==
    (/\ stats.last.call = "scalar"
     /\ stats.last.self.kind = "Int"
     /\ stats.last.with = "Int32"
     /\ Int64Le(stats.last.self.min, stats.last.self.max)) =>
        /\ stats.last.out.some
        /\ stats.last.out.min.value <= stats.last.out.max.value
        /\ FitsI32(stats.last.self.min) =>
              stats.last.out.min.value = stats.last.self.min.lo
        /\ FitsI32(stats.last.self.max) =>
              stats.last.out.max.value = stats.last.self.max.lo

\* C22: a multipart upload of a finite file terminates when every request
\* and file read returns: it returns, and when it returns success every
\* byte of the file was written, in chunks of at most 50 MiB; no chunk is
\* read twice, each read starting where the one before it ended.
C22_MultipartTerminates ==
    /\ (up.path = "multipart") ~> (up.pc = "returned")
    /\ [](up.path = "multipart" /\ up.pc = "returned" /\ up.res.ok =>
            /\ Covered(up.written) = up.size
            /\ InFileOrder(up.written)
            /\ \A i \in 1..Len(up.written) : up.written[i][2] <= ChunkSize)
    /\ [][(up.pc = "read" /\ up'.pc = "write") =>
            (up'.buf.start = up.pos /\ up'.pos > up.pos)]_vars

\* C22 witness: a multipart upload returned success after three chunks, the
\* first from a short read
C22_Witness ==
    /\ up.path = "multipart"
    /\ up.pc = "returned"
    /\ up.res.ok
    /\ Len(up.written) = 3
    /\ up.written[1][2] = ShortReadLen

====
